---- MODULE Spec2Model ----
(***************************************************************************)
(* A model of fava-query (src/src/main.rs): an axum service that, for each *)
(* inbound request, issues a refresh GET and a data GET to an upstream     *)
(* Fava instance and turns the scraped markup into JSON records.           *)
(*                                                                         *)
(* Text is a sequence of one-character strings, so that trim, replace,     *)
(* parse and to_string are computed character by character.  A parsed      *)
(* HTML document is the sequence of elements its selectors return, each    *)
(* with the text of the cells the code reads.  Option<T> is a sequence of  *)
(* length at most one: <<>> is None and <<x>> is Some(x).                  *)
(***************************************************************************)
EXTENDS Integers, Sequences, FiniteSets, TLC

VARIABLES
    pc,         \* where the handler of the current request is
    endpoint,   \* "none", "query" or "account": the route that matched
    negate,     \* AccountParams.negate, an Option<bool>
    calls,      \* the outbound HTTP events of the current request, in order
    statuses,   \* the HTTP status of each outbound call that got a response
    envelope,   \* the QueryResult decoded from the data call (query route)
    html,       \* the .transaction lines of the account page (account route)
    table,      \* the header cells and body rows of data.table (query route)
    titles,     \* get_table_data: the local `titles`
    result,     \* get_table_data / get_account_data: the local `result`
    idx,        \* how many rows or lines the for_each has visited
    response    \* what the client receives for the current request

vars == <<pc, endpoint, negate, calls, statuses, envelope, html, table,
          titles, result, idx, response>>

----------------------------------------------------------------------------
\* Bounds of the model.

MaxLines == 3
MaxCols == 2
MaxRows == 2

----------------------------------------------------------------------------
\* Option<T>

None == <<>>
Some(x) == <<x>>

----------------------------------------------------------------------------
\* Text: str::trim, str::replace, f32::from_str, f32::to_string

IsWhitespace(c) == c \in {" ", "\n"}

RECURSIVE TrimStart(_)
TrimStart(s) ==
    IF s # <<>> /\ IsWhitespace(Head(s)) THEN TrimStart(Tail(s)) ELSE s

RECURSIVE TrimEnd(_)
TrimEnd(s) ==
    IF s # <<>> /\ IsWhitespace(s[Len(s)])
    THEN TrimEnd(SubSeq(s, 1, Len(s) - 1))
    ELSE s

Trim(s) == TrimEnd(TrimStart(s))

CNY == <<"C", "N", "Y">>

StartsWith(s, p) == Len(s) >= Len(p) /\ SubSeq(s, 1, Len(p)) = p

\* str::replace(pat, ""): every non-overlapping match, left to right, removed.
RECURSIVE Remove(_, _)
Remove(s, pat) ==
    IF s = <<>> THEN <<>>
    ELSE IF StartsWith(s, pat) THEN Remove(SubSeq(s, Len(pat) + 1, Len(s)), pat)
    ELSE <<Head(s)>> \o Remove(Tail(s), pat)

DigitChars == <<"0", "1", "2", "3", "4", "5", "6", "7", "8", "9">>

IsDigit(c) == \E d \in 1..10 : DigitChars[d] = c

DigitValue(c) == (CHOOSE d \in 1..10 : DigitChars[d] = c) - 1

RECURSIVE ParseDigits(_, _)
ParseDigits(s, acc) ==
    IF s = <<>> THEN acc
    ELSE ParseDigits(Tail(s), 10 * acc + DigitValue(Head(s)))

\* An f32 is a sign and a magnitude: IEEE 754 has a negative zero, which
\* from_str keeps ("-0" parses to -0.0) and to_string prints ("-0").
F32(neg, mag) == [neg |-> neg, mag |-> mag]

\* <f32 as FromStr>::from_str on the texts of the model: an optional sign
\* followed by one or more decimal digits; anything else (the empty string,
\* a lone sign, any other character) is Err.
ParseF32(s) ==
    LET signed == s # <<>> /\ Head(s) \in {"+", "-"}
        digits == IF signed THEN Tail(s) ELSE s
    IN  IF digits # <<>> /\ \A k \in 1..Len(digits) : IsDigit(digits[k])
        THEN Some(F32(signed /\ Head(s) = "-", ParseDigits(digits, 0)))
        ELSE None

RECURSIVE NatToString(_)
NatToString(n) ==
    IF n < 10 THEN <<DigitChars[n + 1]>>
    ELSE NatToString(n \div 10) \o <<DigitChars[(n % 10) + 1]>>

\* f32::to_string (Display): the sign, then the shortest decimal form.
F32ToString(x) == (IF x.neg THEN <<"-">> ELSE <<>>) \o NatToString(x.mag)

\* `0.0 - x` in IEEE 754 round-to-nearest: 0.0 - 0.0 and 0.0 - (-0.0) are
\* both +0.0; any other x has its sign flipped.
ZeroMinus(x) == IF x.mag = 0 THEN F32(FALSE, 0) ELSE F32(~x.neg, x.mag)

----------------------------------------------------------------------------
\* Inputs: what a client sends and what the upstream answers.

Seqs(S, n) == UNION {[1..k -> S] : k \in 0..n}

\* The `negate` query parameter as sent: absent, empty, or some text.
NegateParams == {None, Some(""), Some("true"), Some("false"), Some("1")}

\* The `query_string` query parameter as sent: absent or present.
QueryStringParams == {None, Some("select")}

\* How an outbound GET can end: reqwest::get fails (no response), the response
\* arrives but reading its body fails, or status and body both arrive.
HttpStatuses == {200, 500}

DateTexts == {<<"d">>, <<" ", "d">>, <<"e">>}
ChangeTexts == {<<"1", " ", "C", "N", "Y">>, <<"x">>}
BalanceTexts == {<<" ", "0", " ", "C", "N", "Y">>, <<"-", "2", "C", "N", "Y", " ">>}

\* One .transaction element: the text of its .datecell, of its .change and
\* of its span:nth-child(6).
Transactions == [datecell : DateTexts, change : ChangeTexts, balance : BalanceTexts]

AccountPages == Seqs(Transactions, MaxLines)

TitleTexts == {<<"a">>, <<"b", " ">>}

\* The text of the td at row r, column c: each cell names its place, and
\* every other column carries leading, every other row trailing whitespace.
CellText(r, c) ==
    (IF c % 2 = 0 THEN <<" ">> ELSE <<>>)
    \o <<DigitChars[r + 1], DigitChars[c + 1]>>
    \o (IF r % 2 = 0 THEN <<"\n">> ELSE <<>>)

\* data.table: the text of each thead tr th, and for each tbody tr the text
\* of each of its td.  A row may hold one cell more than any header has.
TableOf(th, widths) ==
    [th |-> th,
     tr |-> [r \in 1..Len(widths) |-> [c \in 1..widths[r] |-> CellText(r, c)]]]

Tables ==
    {TableOf(th, widths) :
        th \in Seqs(TitleTexts, MaxCols), widths \in Seqs(0..(MaxCols + 1), MaxRows)}

NoTable == [th |-> <<>>, tr |-> <<>>]

\* QueryResult { error, success, data }
QueryResult(success, error, data) ==
    [success |-> success, error |-> error, data |-> data]

UpstreamErrors == {None, Some("bad query")}

QueryResults ==
    {QueryResult(TRUE, None, d) : d \in {None} \cup {Some(t) : t \in Tables}}
    \cup {QueryResult(FALSE, e, d) : e \in UpstreamErrors, d \in {None, Some(NoTable)}}

NoEnvelope == QueryResult(FALSE, None, None)

----------------------------------------------------------------------------
\* Responses

NoResponse ==
    [kind |-> "none", status |-> 0, success |-> FALSE, data |-> <<>>, error |-> ""]

\* SuccessResult::new / SuccessResult::default and its IntoResponse
SuccessResult(data) ==
    [kind |-> "json", status |-> 200, success |-> TRUE, data |-> data, error |-> ""]

\* ErrorResult::new and its IntoResponse
ErrorResult(error) ==
    [kind |-> "json", status |-> 200, success |-> FALSE, data |-> <<>>, error |-> error]

\* The Query extractor fails to deserialize the parameters: the handler is
\* not called and axum answers with the rejection, a 4xx status of its own
\* (400 here) and no envelope.
Rejection ==
    [kind |-> "rejection", status |-> 400, success |-> FALSE, data |-> <<>>, error |-> ""]

----------------------------------------------------------------------------
\* Parameter decoding

\* empty_string_as_none::<_, bool>: Ok(None) for an absent or empty parameter,
\* Ok(Some(b)) when bool::from_str accepts the text, Err otherwise.  The
\* result is <<"Ok", option>> or <<"Err">>.
empty_string_as_none(opt) ==
    IF opt = None \/ opt = Some("") THEN <<"Ok", None>>
    ELSE IF opt = Some("true") THEN <<"Ok", Some(TRUE)>>
    ELSE IF opt = Some("false") THEN <<"Ok", Some(FALSE)>>
    ELSE <<"Err">>

----------------------------------------------------------------------------
\* get_table_data

\* titles.push(node.text().to_string())
TitleOf(th) == th

\* A variant that keeps the value a key already has.
InsertIfAbsent(map, key, value) ==
    [k \in DOMAIN map \cup {key} |-> IF k \in DOMAIN map THEN map[k] ELSE value]

\* HashMap::insert
Insert(map, key, value) ==
    [k \in DOMAIN map \cup {key} |-> IF k = key THEN value ELSE map[k]]

EmptyMap == [k \in {} |-> <<>>]

\* el.text().trim().to_string()
CellValue(td) == Trim(td)

\* The `for (i, el) in node.select("td").iter().enumerate()` loop from cell i
\* on: None when titles.get(i).unwrap() panics, Some(line) otherwise.
RECURSIVE InsertCells(_, _, _, _)
InsertCells(ts, cells, i, line) ==
    IF i > Len(cells) THEN Some(line)
    ELSE IF i > Len(ts) THEN None
    ELSE InsertCells(ts, cells, i + 1, Insert(line, ts[i], CellValue(cells[i])))

RowRecord(ts, cells) == InsertCells(ts, cells, 1, EmptyMap)

----------------------------------------------------------------------------
\* get_account_data

\* line.select(".datecell").text().to_string()
DateOf(line) == line.datecell

\* A variant that compares with the last accepted item only.
AlreadyAcceptedLastOnly(res, date) == res # <<>> /\ res[Len(res)].date = date

\* result.iter().any(|item| item.get("date") == Some(&date))
AlreadyAccepted(res, date) == \E k \in 1..Len(res) : res[k].date = date

\* .text().replace("CNY", "").trim().parse()
ParseAmount(text) == ParseF32(Trim(Remove(text, CNY)))

\* A variant that negates whenever the parameter is present.
ApplyNegateIfPresent(neg, x) == IF neg # None THEN ZeroMinus(x) ELSE x

\* if Some(true) == params.negate { x = 0.0 - x }
ApplyNegate(neg, x) == IF neg = Some(TRUE) THEN ZeroMinus(x) ELSE x

\* A variant that leaves the order as it is.
ReverseOmitted(s) == s

\* Vec::reverse
RECURSIVE Reverse(_)
Reverse(s) == IF s = <<>> THEN <<>> ELSE Reverse(Tail(s)) \o <<Head(s)>>

\* One call of the for_each closure.  "skip" is the early return on a date
\* already in result, "panic" an unwrap() of a failed parse, "push" the
\* item appended to result.
AccountStep(res, line, neg) ==
    LET date == DateOf(line)
        changed == ParseAmount(line.change)
        balance == ParseAmount(line.balance)
    IN  IF AlreadyAccepted(res, date) THEN [kind |-> "skip", result |-> res]
        ELSE IF changed = None \/ balance = None THEN [kind |-> "panic", result |-> res]
        ELSE [kind |-> "push",
              result |-> Append(res,
                  [date |-> date,
                   changed |-> F32ToString(ApplyNegate(neg, changed[1])),
                   balance |-> F32ToString(ApplyNegate(neg, balance[1]))])]

\* The whole of get_account_data: None when it panics, Some(result) otherwise.
RECURSIVE AccountFold(_, _, _, _)
AccountFold(lines, neg, i, res) ==
    IF i > Len(lines) THEN Some(Reverse(res))
    ELSE LET step == AccountStep(res, lines[i], neg)
         IN IF step.kind = "panic" THEN None
            ELSE AccountFold(lines, neg, i + 1, step.result)

get_account_data(lines, neg) == AccountFold(lines, neg, 1, <<>>)

----------------------------------------------------------------------------
\* The service: one inbound request from routing to response.

\* How an outbound GET ends: reqwest::get(..).await fails and there is no
\* response ("send"); the response arrives and reading or decoding its body
\* fails ("body"); the response arrives and its body is read ("ok").  reqwest
\* reports no error for a status: a response with any status is Ok.
Outcomes ==
    {[kind |-> "send", status |-> 0]}
    \cup {[kind |-> k, status |-> st] : k \in {"body", "ok"}, st \in HttpStatuses}

\* reqwest::Error's Display text
SendError == "error sending request"
BodyError == "error decoding response body"

ErrorText(outcome) == IF outcome.kind = "send" THEN SendError ELSE BodyError

NoStatuses == [refresh |-> None, data |-> None]

\* An outbound event: the call ("refresh" or "data") and what happened to it
\* ("start" when it is sent, then "ok" or "err" when it ends).
Event(call, what) == <<call, what>>

Ended(call, o) == Event(call, IF o.kind = "ok" THEN "ok" ELSE "err")

\* A variant that goes on to the data call whatever the refresh call gave.
AfterRefreshIgnoringError(o) == "data"

\* The `?` after the refresh call: on Err the function returns, and the
\* handler's Err arm ends the request; on Ok the data call is next.
AfterRefresh(o) == IF o.kind = "ok" THEN "data" ELSE "done"

\* A variant that always answers with the fixed message.
ErrorMessageFixed(error) == "Something went wrong"

\* result.error.unwrap_or("Something went wrong".into())
ErrorMessage(error) == IF error # None THEN error[1] ELSE "Something went wrong"

Init ==
    /\ pc = "idle"
    /\ endpoint = "none"
    /\ negate = None
    /\ calls = <<>>
    /\ statuses = NoStatuses
    /\ envelope = NoEnvelope
    /\ html = <<>>
    /\ table = NoTable
    /\ titles = <<>>
    /\ result = <<>>
    /\ idx = 0
    /\ response = NoResponse

\* The server takes the next request once the last one is over: a handler
\* that panicked took only its own task down.
Ready == pc \in {"idle", "done", "panicked"}

NewRequest(route, neg, next, resp) ==
    /\ pc' = next
    /\ endpoint' = route
    /\ negate' = neg
    /\ calls' = <<>>
    /\ statuses' = NoStatuses
    /\ envelope' = NoEnvelope
    /\ html' = <<>>
    /\ table' = NoTable
    /\ titles' = <<>>
    /\ result' = <<>>
    /\ idx' = 0
    /\ response' = resp

\* GET /api/query_result: Query<Params> needs query_string.
ReceiveQuery ==
    /\ Ready
    /\ \E q \in QueryStringParams :
         IF q = None
         THEN NewRequest("query", None, "done", Rejection)
         ELSE NewRequest("query", None, "refresh", NoResponse)

\* GET /api/account/:account: Query<AccountParams> decodes negate.
ReceiveAccount ==
    /\ Ready
    /\ \E raw \in NegateParams :
         LET decoded == empty_string_as_none(raw)
         IN IF decoded[1] = "Err"
            THEN NewRequest("account", None, "done", Rejection)
            ELSE NewRequest("account", decoded[2], "refresh", NoResponse)

\* query_table / query_account: reqwest::get("{url}/income_statement/") is sent.
StartRefresh ==
    /\ pc = "refresh"
    /\ calls' = Append(calls, Event("refresh", "start"))
    /\ pc' = "refresh_wait"
    /\ UNCHANGED <<endpoint, negate, statuses, envelope, html, table, titles,
                   result, idx, response>>

\* .await?.text().await?: the refresh call ends; its body is dropped.  An
\* Err leaves query_table / query_account at once, and the handler's Err arm
\* answers with ErrorResult::new(e.to_string()).
CompleteRefresh ==
    /\ pc = "refresh_wait"
    /\ \E o \in Outcomes :
         /\ calls' = Append(calls, Ended("refresh", o))
         /\ statuses' = [statuses EXCEPT !.refresh =
                            IF o.kind = "send" THEN None ELSE Some(o.status)]
         /\ pc' = AfterRefresh(o)
         /\ response' = IF o.kind = "ok" THEN response ELSE ErrorResult(ErrorText(o))
    /\ UNCHANGED <<endpoint, negate, envelope, html, table, titles, result, idx>>

\* reqwest::get(query_url) / reqwest::get("{url}/account/{account}") is sent.
StartData ==
    /\ pc = "data"
    /\ calls' = Append(calls, Event("data", "start"))
    /\ pc' = "data_wait"
    /\ UNCHANGED <<endpoint, negate, statuses, envelope, html, table, titles,
                   result, idx, response>>

\* query_table: .await?.json::<QueryResult>().await?  The body either decodes
\* to a QueryResult or does not (an outcome of kind "body").
CompleteDataQuery ==
    /\ pc = "data_wait"
    /\ endpoint = "query"
    /\ \E o \in Outcomes, qr \in QueryResults :
         /\ calls' = Append(calls, Ended("data", o))
         /\ statuses' = [statuses EXCEPT !.data =
                            IF o.kind = "send" THEN None ELSE Some(o.status)]
         /\ IF o.kind = "ok"
            THEN pc' = "query_match" /\ envelope' = qr /\ response' = response
            ELSE pc' = "done" /\ envelope' = envelope
                 /\ response' = ErrorResult(ErrorText(o))
    /\ UNCHANGED <<endpoint, negate, html, table, titles, result, idx>>

\* query_account: .await?.text().await?, then account's Ok arm calls
\* get_account_data(result, params), which selects the .transaction lines.
CompleteDataAccount ==
    /\ pc = "data_wait"
    /\ endpoint = "account"
    /\ \E o \in Outcomes, page \in AccountPages :
         /\ calls' = Append(calls, Ended("data", o))
         /\ statuses' = [statuses EXCEPT !.data =
                            IF o.kind = "send" THEN None ELSE Some(o.status)]
         /\ IF o.kind = "ok"
            THEN pc' = "account_lines" /\ html' = page /\ response' = response
            ELSE pc' = "done" /\ html' = html
                 /\ response' = ErrorResult(ErrorText(o))
    /\ UNCHANGED <<endpoint, negate, envelope, table, titles, result, idx>>

\* query: the match on Ok(result).
QueryMatch ==
    /\ pc = "query_match"
    /\ IF envelope.success
       THEN IF envelope.data # None
            THEN pc' = "table_titles" /\ table' = envelope.data[1]
                 /\ response' = response
            ELSE pc' = "done" /\ table' = table /\ response' = SuccessResult(<<>>)
       ELSE /\ pc' = "done"
            /\ table' = table
            /\ response' = ErrorResult(ErrorMessage(envelope.error))
    /\ UNCHANGED <<endpoint, negate, calls, statuses, envelope, html, titles,
                   result, idx>>

\* get_table_data: the titles are collected.
TableTitles ==
    /\ pc = "table_titles"
    /\ titles' = [k \in 1..Len(table.th) |-> TitleOf(table.th[k])]
    /\ pc' = "table_rows"
    /\ UNCHANGED <<endpoint, negate, calls, statuses, envelope, html, table,
                   result, idx, response>>

\* get_table_data: one tbody tr.  A panic ends the handler's task: the
\* connection is closed and the client gets no response.
TableRow ==
    /\ pc = "table_rows"
    /\ idx < Len(table.tr)
    /\ LET line == RowRecord(titles, table.tr[idx + 1])
       IN IF line = None
          THEN pc' = "panicked" /\ result' = result
          ELSE pc' = "table_rows" /\ result' = Append(result, line[1])
    /\ idx' = idx + 1
    /\ UNCHANGED <<endpoint, negate, calls, statuses, envelope, html, table,
                   titles, response>>

\* get_table_data returns; query answers Ok(SuccessResult::new(..)).
TableReturn ==
    /\ pc = "table_rows"
    /\ idx = Len(table.tr)
    /\ pc' = "done"
    /\ response' = SuccessResult(result)
    /\ UNCHANGED <<endpoint, negate, calls, statuses, envelope, html, table,
                   titles, result, idx>>

\* get_account_data: one .transaction line.
AccountLine ==
    /\ pc = "account_lines"
    /\ idx < Len(html)
    /\ LET step == AccountStep(result, html[idx + 1], negate)
       IN /\ pc' = IF step.kind = "panic" THEN "panicked" ELSE "account_lines"
          /\ result' = step.result
    /\ idx' = idx + 1
    /\ UNCHANGED <<endpoint, negate, calls, statuses, envelope, html, table,
                   titles, response>>

\* get_account_data reverses result and returns; account answers
\* Ok(SuccessResult::new(..)).
AccountReturn ==
    /\ pc = "account_lines"
    /\ idx = Len(html)
    /\ result' = Reverse(result)
    /\ pc' = "done"
    /\ response' = SuccessResult(result')
    /\ UNCHANGED <<endpoint, negate, calls, statuses, envelope, html, table,
                   titles, idx>>

Next ==
    \/ ReceiveQuery
    \/ ReceiveAccount
    \/ StartRefresh
    \/ CompleteRefresh
    \/ StartData
    \/ CompleteDataQuery
    \/ CompleteDataAccount
    \/ QueryMatch
    \/ TableTitles
    \/ TableRow
    \/ TableReturn
    \/ AccountLine
    \/ AccountReturn

Spec == Init /\ [][Next]_vars

----------------------------------------------------------------------------
\* Properties of get_account_data

\* The account handler answered with Ok(SuccessResult::new(..)).
AccountAnswered ==
    pc = "done" /\ endpoint = "account" /\ response.kind = "json" /\ response.success

\* The transaction get_account_data makes of one line on its own.
ItemOf(line, neg) == get_account_data(<<line>>, neg)[1][1]

\* The first line of the page with the date of line i.
FirstWithDate(lines, i) ==
    CHOOSE j \in 1..i :
        /\ lines[j].datecell = lines[i].datecell
        /\ \A h \in 1..(j - 1) : lines[h].datecell # lines[i].datecell

\* The lines that survive: those no earlier line shares the date of.
Survivors(lines) ==
    {i \in 1..Len(lines) : \A j \in 1..(i - 1) : lines[j].datecell # lines[i].datecell}

\* The number a decimal text denotes.
ValueOf(text) ==
    LET x == ParseF32(text)[1] IN IF x.neg THEN 0 - x.mag ELSE x.mag

\* C1: the result holds exactly one transaction for each date of the page,
\* and it is the transaction of the first line, in document order, with
\* that date; the amounts of the later lines with the date play no part.
C1_KeepFirstByDate ==
    AccountAnswered =>
        LET data == response.data
        IN  /\ \A j, k \in 1..Len(data) : j # k => data[j].date # data[k].date
            /\ \A k \in 1..Len(data) :
                 \E i \in 1..Len(html) : data[k].date = html[i].datecell
            /\ \A i \in 1..Len(html) :
                 \E k \in 1..Len(data) :
                    /\ data[k].date = html[i].datecell
                    /\ data[k] = ItemOf(html[FirstWithDate(html, i)], negate)

\* Two lines with one date and different amounts, a line with another date
\* between them, and an answer.
C1_Witness ==
    /\ AccountAnswered
    /\ Len(html) = 3
    /\ html[1].datecell = html[3].datecell
    /\ html[1].datecell # html[2].datecell
    /\ html[1].balance # html[3].balance
    /\ Len(response.data) = 2

\* C2: the result is the surviving lines' transactions in the reverse of
\* document order, each once.
C2_ReverseOfDocumentOrder ==
    AccountAnswered =>
        LET data == response.data
            kept == Survivors(html)
        IN  /\ Len(data) = Cardinality(kept)
            /\ \A i \in kept :
                 data[Len(data) + 1 - Cardinality({j \in kept : j <= i})]
                    = ItemOf(html[i], negate)

\* Three lines of which the second is dropped: two transactions, the
\* first line's last.
C2_Witness ==
    /\ AccountAnswered
    /\ Len(html) = 3
    /\ Survivors(html) = {1, 3}
    /\ Len(response.data) = 2
    /\ response.data[2].date = html[1].datecell
    /\ response.data[1].date = html[3].datecell

\* C3: with negate=true the result has the dates of the negate=false result
\* in the same order, and changed and balance denote the negated numbers;
\* an absent or empty negate gives the negate=false result; negating twice
\* gives the number back; and a page is rejected (the parse panics) with
\* one value of negate exactly when it is with every other.
C3_NegateFlipsBothSigns ==
    /\ AccountAnswered =>
        LET data == response.data
            plain == get_account_data(html, Some(FALSE))
        IN  /\ plain # None
            /\ get_account_data(html, None) = plain
            /\ negate # Some(TRUE) => data = plain[1]
            /\ negate = Some(TRUE) =>
                /\ Len(data) = Len(plain[1])
                /\ \A k \in 1..Len(data) :
                     /\ data[k].date = plain[1][k].date
                     /\ ValueOf(data[k].changed) = 0 - ValueOf(plain[1][k].changed)
                     /\ ValueOf(data[k].balance) = 0 - ValueOf(plain[1][k].balance)
                     /\ ValueOf(F32ToString(ApplyNegate(negate, ParseF32(data[k].changed)[1])))
                          = ValueOf(plain[1][k].changed)
                     /\ ValueOf(F32ToString(ApplyNegate(negate, ParseF32(data[k].balance)[1])))
                          = ValueOf(plain[1][k].balance)
    /\ (pc = "panicked" /\ endpoint = "account") =>
        \A n \in {None, Some(TRUE), Some(FALSE)} : get_account_data(html, n) = None

\* negate=true, a line dropped, and amounts that are not zero.
C3_Witness ==
    /\ AccountAnswered
    /\ negate = Some(TRUE)
    /\ Len(html) = 3
    /\ Len(response.data) = 2
    /\ \E k \in 1..2 : ValueOf(response.data[k].balance) = 2
    /\ \E k \in 1..2 : ValueOf(response.data[k].changed) = 0 - 1

----------------------------------------------------------------------------
\* Properties of get_table_data

\* The query handler answered with Ok(SuccessResult::new(get_table_data(..))).
TableAnswered ==
    /\ pc = "done" /\ endpoint = "query"
    /\ response.kind = "json" /\ response.success
    /\ envelope.success /\ envelope.data # None

\* No row has more cells than there are header cells.
Fits(t) == \A r \in 1..Len(t.tr) : Len(t.tr[r]) <= Len(t.th)

\* The last of the first k header positions with the title of position c.
LastWithTitle(th, k, c) ==
    CHOOSE d \in c..k : th[d] = th[c] /\ \A e \in (d + 1)..k : th[e] # th[c]

\* C4 as stated: one record per row in row order, its keys the titles at
\* the row's cell positions, each title mapped to the (trimmed) text of the
\* cell at its own position.
C4_IndexJoin ==
    (TableAnswered /\ Fits(table)) =>
        LET data == response.data
        IN  /\ Len(data) = Len(table.tr)
            /\ \A r \in 1..Len(data) :
                 LET cells == table.tr[r]
                 IN /\ DOMAIN data[r] = {table.th[c] : c \in 1..Len(cells)}
                    /\ \A c \in 1..Len(cells) : data[r][table.th[c]] = Trim(cells[c])

\* C4 as amended: one record per row in row order, its keys the titles at
\* the row's cell positions, each title mapped to the trimmed text of the
\* last of the row's cells under that title (the cell at the title's own
\* position when no later header cell of the row repeats it); a table whose
\* rows all fit its header is always answered.
C4_IndexJoinLastWins ==
    /\ (TableAnswered /\ Fits(table)) =>
        LET data == response.data
        IN  /\ Len(data) = Len(table.tr)
            /\ \A r \in 1..Len(data) :
                 LET cells == table.tr[r]
                 IN /\ DOMAIN data[r] = {table.th[c] : c \in 1..Len(cells)}
                    /\ \A c \in 1..Len(cells) :
                         data[r][table.th[c]]
                            = Trim(cells[LastWithTitle(table.th, Len(cells), c)])
    /\ (pc = "panicked" /\ endpoint = "query") => ~Fits(table)

\* Two header cells with one title, a row of two cells and a row of one.
C4_Witness ==
    /\ TableAnswered
    /\ Fits(table)
    /\ Len(table.th) = 2
    /\ table.th[1] = table.th[2]
    /\ Len(table.tr) = 2
    /\ Len(table.tr[1]) = 2
    /\ Len(table.tr[2]) = 1
    /\ Len(response.data) = 2

\* C5: a row with more cells than the header has cells is answered all the
\* same: one record per row, none with more fields than the header has
\* cells, the cells without a title dropped.
C5_ExtraCellsDropped ==
    (/\ endpoint = "query"
     /\ pc \in {"done", "panicked"}
     /\ ~Fits(table)) =>
        /\ pc = "done"
        /\ response.kind = "json" /\ response.success
        /\ Len(response.data) = Len(table.tr)
        /\ \A r \in 1..Len(response.data) :
             Cardinality(DOMAIN response.data[r]) <= Len(table.th)

----------------------------------------------------------------------------
\* Properties of the handlers

\* C6: a line whose changed or balance text does not parse ends the account
\* request with a {success: false, error} envelope and status 200.
C6_ParseFailureAnswered ==
    (/\ endpoint = "account"
     /\ pc \in {"done", "panicked"}
     /\ \E i \in Survivors(html) :
          ParseAmount(html[i].change) = None \/ ParseAmount(html[i].balance) = None) =>
        /\ pc = "done"
        /\ response.kind = "json"
        /\ response.status = 200
        /\ ~response.success
        /\ response.error # ""

\* The request of the state ended, and without a reqwest error.
NoTransportFailure ==
    \/ pc = "panicked"
    \/ /\ pc = "done"
       /\ response.kind = "json"
       /\ response.success \/ response.error \notin {SendError, BodyError}

\* C7: the outbound events of a request are a prefix of refresh sent,
\* refresh ended, data sent, data ended; the data call is sent only after
\* the refresh call ended without error; a request that ends without a
\* transport failure made both calls; and a refresh call that fails is the
\* last event of its request, which ends with an error envelope.
C7_RefreshThenData ==
    /\ Len(calls) <= 4
    /\ \A k \in 1..Len(calls) :
         /\ calls[k][1] = (IF k <= 2 THEN "refresh" ELSE "data")
         /\ (calls[k][2] = "start") <=> (k % 2 = 1)
    /\ Len(calls) > 2 => calls[2] = Event("refresh", "ok")
    /\ NoTransportFailure => Len(calls) = 4
    /\ (Len(calls) >= 2 /\ calls[2] = Event("refresh", "err")) =>
         /\ Len(calls) = 2
         /\ pc = "done"
         /\ response.kind = "json" /\ ~response.success
         /\ response.error \in {SendError, BodyError}

\* A request answered with success after both calls.
C7_Witness ==
    /\ pc = "done"
    /\ response.kind = "json" /\ response.success
    /\ calls = <<Event("refresh", "start"), Event("refresh", "ok"),
                 Event("data", "start"), Event("data", "ok")>>

Non2xx(st) == st # None /\ st[1] \notin 200..299

\* C8: a request one of whose outbound calls was answered with a status
\* outside 200..299 never ends with success: true.
C8_Non2xxIsError ==
    (pc = "done" /\ (Non2xx(statuses.refresh) \/ Non2xx(statuses.data))) =>
        (response.kind = "json" /\ ~response.success)

\* The query handler has matched an upstream envelope with success = false.
UpstreamFailed ==
    /\ pc = "done" /\ endpoint = "query"
    /\ Len(calls) = 4 /\ calls[4] = Event("data", "ok")
    /\ ~envelope.success

\* C9: an upstream envelope with success = false is answered with
\* {success: false, error: e}, e the upstream error when there is one and
\* "Something went wrong" when there is none; get_table_data has not run
\* and no data is returned.
C9_UpstreamErrorPropagated ==
    /\ UpstreamFailed =>
        /\ response.kind = "json" /\ response.status = 200
        /\ ~response.success
        /\ response.error = (IF envelope.error = None
                             THEN "Something went wrong"
                             ELSE envelope.error[1])
        /\ response.data = <<>>
        /\ titles = <<>> /\ result = <<>> /\ idx = 0 /\ table = NoTable
    /\ pc \in {"table_titles", "table_rows"} => envelope.success

\* The upstream reported "bad query" (and sent a table with it).
C9_Witness ==
    /\ UpstreamFailed
    /\ envelope.error = Some("bad query")
    /\ envelope.data # None
    /\ response.error = "bad query"

\* C10: the keys of every record are trimmed header texts, the date of
\* every transaction is the trimmed text of a date cell, and no two
\* transactions have dates that differ only in surrounding whitespace.
C10_TextIsTrimmed ==
    /\ TableAnswered =>
        \A r \in 1..Len(response.data) :
            \A key \in DOMAIN response.data[r] :
                \E c \in 1..Len(table.th) : key = Trim(table.th[c])
    /\ AccountAnswered =>
        LET data == response.data
        IN  /\ \A k \in 1..Len(data) :
                 \E i \in 1..Len(html) : data[k].date = Trim(html[i].datecell)
            /\ \A j, k \in 1..Len(data) :
                 j # k => Trim(data[j].date) # Trim(data[k].date)

====
